---- MODULE Spec2Model ----
(***************************************************************************)
(* homebrew-sync.py: one run of main().  The main thread walks through     *)
(* require_macos, parse_config, assert_lists, brew_path, update_and_upgrade,*)
(* install_formulae, install_casks, collect_caveats_parallel, print_result. *)
(* The two batch runners start a ThreadPoolExecutor whose workers run the  *)
(* probes (is_cask_installed, get_caveat) concurrently with the main       *)
(* thread, which collects the futures with as_completed.                   *)
(***************************************************************************)
EXTENDS Integers, Sequences, FiniteSets, TLC

VARIABLES
    cfg,          \* config.json as found on disk
    tool,         \* how the external tool and the host behave in this run
    pc,           \* position of the main thread
    brew,         \* main(): brew, "" until brew_path() has returned
    formulae,     \* main(): formulae
    casks,        \* main(): casks
    result,       \* main(): result, the Report
    outdated,     \* update_and_upgrade(): outdated
    to_install,   \* install_formulae() / filter_missing_casks_parallel(): to_install
    futures,      \* the runner's futures, in submission order
    max_workers,  \* the executor's max_workers
    caveats,      \* collect_caveats_parallel(): caveats
    calls,        \* external commands the main thread has in flight
    warned,       \* cask names log_warning was called for
    steps,        \* the steps of main() entered so far
    exc,          \* the exception propagating out of the main thread, "" if none
    report,       \* what print_result printed, NoReport before
    exitcode,     \* the process's exit status, -1 while it runs
    issued,       \* the external commands the main thread has run, in order
    world,        \* the tool's fixed answers per cask name when tool = "fixed"
    first_run     \* the result of an earlier call of the filter, if any

vars == << cfg, tool, pc, brew, formulae, casks, result, outdated, to_install,
           futures, max_workers, caveats, calls, warned, steps, exc, report,
           exitcode, issued, world, first_run >>

----------------------------------------------------------------------------
(* Bounds of the model *)

\* longest configuration (formulae plus casks) of an ordinary run
MaxItems == 2

\* number of casks of the wide configuration, one more than MAX_WORKERS
WideBatch == 9

(* Program constants *)

\* min(8, len(items)): the executor's worker cap
MAX_WORKERS == 8

FormulaNames == {"git", "wget"}
CaskNames == {"iterm2", "vlc"}

----------------------------------------------------------------------------
(* Inputs *)

SeqsUpTo(S, n) == UNION {[1..k -> S] : k \in 0..n}

\* config.json: a well-formed file with two lists (an absent key is the empty
\* list, data.get(key, [])), or one of the fatal shapes
OkConfigs ==
    {[kind |-> "ok", formula |-> f, cask |-> c] :
        f \in SeqsUpTo(FormulaNames, MaxItems), c \in SeqsUpTo(CaskNames, MaxItems)}

BadConfigs ==
    {[kind |-> k, formula |-> <<>>, cask |-> <<>>] :
        k \in {"missing", "malformed", "notlist"}}

\* the tool answers alike for every name, so of the lists that differ only
\* by exchanging the two names the one that begins with n stands for both
BeginsWith(xs, n) == xs = <<>> \/ xs[1] = n

SmallConfigs ==
    {c \in OkConfigs : /\ Len(c.formula) + Len(c.cask) <= MaxItems
                       /\ BeginsWith(c.formula, "git")
                       /\ BeginsWith(c.cask, "iterm2")} \cup BadConfigs

\* a configuration with more casks than the executor has workers
WideConfig ==
    [kind |-> "ok", formula |-> <<>>,
     cask |-> [i \in 1..WideBatch |-> IF i % 2 = 1 THEN "iterm2" ELSE "vlc"]]

NoReport == [printed |-> FALSE]

\* no fixed answers: every call answers on its own
NoWorld == <<>>

\* the filter has not been called before
NoRun == [returned |-> FALSE, names |-> {}]

\* main(): the result literal
EmptyResult ==
    [success |-> [install |-> [formula |-> <<>>, cask |-> <<>>],
                  upgrade |-> [formula |-> <<>>], cask |-> <<>>],
     error   |-> [install |-> [formula |-> <<>>, cask |-> <<>>],
                  upgrade |-> [formula |-> <<>>], cask |-> <<>>],
     info    |-> <<>>]

\* "any": every call may answer anything it can answer, exit non-zero or
\* raise.  "steady": every call exits 0, nothing is outdated, everything is
\* installed and no package has caveats.
Init ==
    /\ \/ cfg \in SmallConfigs /\ tool = "any"
       \/ cfg = WideConfig /\ tool = "steady"
    /\ pc = "start"
    /\ brew = ""
    /\ formulae = <<>>
    /\ casks = <<>>
    /\ result = EmptyResult
    /\ outdated = <<>>
    /\ to_install = <<>>
    /\ futures = <<>>
    /\ max_workers = 0
    /\ caveats = <<>>
    /\ calls = {}
    /\ warned = {}
    /\ steps = {}
    /\ exc = ""
    /\ report = NoReport
    /\ exitcode = -1
    /\ issued = <<>>
    /\ world = NoWorld
    /\ first_run = NoRun

----------------------------------------------------------------------------
(* Answers of the environment *)

\* platform.system()
SystemAnswers(t) == IF t = "steady" THEN {"Darwin"} ELSE {"Darwin", "Linux"}

\* brew_path(): whether one of the expected locations or PATH holds brew
BrewFoundAnswers(t) == IF t = "steady" THEN {TRUE} ELSE {TRUE, FALSE}

\* run_live(cmd): exit status 0, exit status non-zero, or subprocess.run raises
LiveAnswers(t) == IF t = "steady" THEN {"ok"} ELSE {"ok", "fail", "raise"}

\* run_capture("brew outdated --formula --quiet").stdout.splitlines(), or raise
OutdatedAnswers(t) ==
    IF t = "steady" THEN {[raise |-> FALSE, lines |-> <<>>]}
    ELSE {[raise |-> FALSE, lines |-> <<>>],
          [raise |-> FALSE, lines |-> <<"git", "wget">>],
          [raise |-> TRUE, lines |-> <<>>]}

\* run_capture("brew list --formula").stdout.splitlines() as a set, or raise
ListFormulaAnswers(t) ==
    IF t = "steady" THEN {[raise |-> FALSE, installed |-> FormulaNames]}
    ELSE {[raise |-> FALSE, installed |-> s] : s \in SUBSET FormulaNames}
         \cup {[raise |-> TRUE, installed |-> {}]}

----------------------------------------------------------------------------
(* The shell wrappers *)

MutatingCmds == {"update", "upgrade", "install", "install_cask"}

\* subprocess.run(cmd, ...) starts the command ...
Started(cs, cmd) == cs \cup {cmd}

\* ... and comes back only when the command has ended
ReturnedLeaving(cs, cmd) == cs

Returned(cs, cmd) == cs \ {cmd}

\* run_live / run_capture on the main thread: the command line goes out ...
Issue(cmd, args) == Append(issued, [cmd |-> cmd, args |-> args, rc |-> "running"])

\* ... and its outcome: "ok" / "fail" of a check=True call, "ignored" when
\* the exit status is not looked at, "raised" when subprocess.run raises
Settle(rc) == [issued EXCEPT ![Len(issued)].rc = rc]

\* an exception nobody catches leaves main(): traceback, exit status 1
Raise(kind) ==
    /\ exc' = kind
    /\ pc' = "main_raised"

\* sys.exit(1)
SysExit ==
    /\ pc' = "exited"
    /\ exitcode' = 1

----------------------------------------------------------------------------
(* main(), up to the tool *)

RequireMacos ==
    /\ pc = "start"
    /\ \E sys \in SystemAnswers(tool) :
          IF sys # "Darwin"
          THEN SysExit /\ UNCHANGED exc
          ELSE pc' = "parse_config" /\ UNCHANGED << exc, exitcode >>
    /\ UNCHANGED << world, first_run, issued, cfg, tool, brew, formulae, casks, result, outdated,
                    to_install, futures, max_workers, caveats, calls, warned,
                    steps, report >>

ParseConfig ==
    /\ pc = "parse_config"
    /\ CASE cfg.kind = "missing" -> SysExit /\ UNCHANGED exc
         [] cfg.kind = "malformed" -> Raise("JSONDecodeError") /\ UNCHANGED exitcode
         [] OTHER -> pc' = "assert_lists" /\ UNCHANGED << exc, exitcode >>
    /\ UNCHANGED << world, first_run, issued, cfg, tool, brew, formulae, casks, result, outdated,
                    to_install, futures, max_workers, caveats, calls, warned,
                    steps, report >>

\* main() without its two assert_lists calls
AssertListsStripped ==
    /\ pc = "assert_lists"
    /\ formulae' = cfg.formula
    /\ casks' = cfg.cask
    /\ result' = EmptyResult
    /\ pc' = "brew_path"
    /\ UNCHANGED << world, first_run, issued, cfg, tool, brew, outdated,
                    to_install, futures, max_workers, caveats, calls, warned,
                    steps, exc, report, exitcode >>

\* assert_lists twice, then formulae, casks and result are bound
AssertLists ==
    /\ pc = "assert_lists"
    /\ IF cfg.kind = "notlist"
       THEN /\ Raise("AssertionError")
            /\ UNCHANGED << formulae, casks, result >>
       ELSE /\ formulae' = cfg.formula
            /\ casks' = cfg.cask
            /\ result' = EmptyResult
            /\ pc' = "brew_path"
            /\ UNCHANGED exc
    /\ UNCHANGED << world, first_run, issued, cfg, tool, brew, outdated, to_install, futures,
                    max_workers, caveats, calls, warned, steps, report,
                    exitcode >>

\* brew_path() returns a path or exits; it never returns a false value, so
\* main()'s "if not brew" branch is not taken
BrewPath ==
    /\ pc = "brew_path"
    /\ steps' = steps \cup {"brew_path"}
    /\ \E found \in BrewFoundAnswers(tool) :
          IF found
          THEN brew' = "brew" /\ pc' = "update" /\ UNCHANGED exitcode
          ELSE SysExit /\ UNCHANGED brew
    /\ UNCHANGED << world, first_run, issued, cfg, tool, formulae, casks, result, outdated, to_install,
                    futures, max_workers, caveats, calls, warned, exc,
                    report >>

----------------------------------------------------------------------------
(* update_and_upgrade *)

UpdateIssue ==
    /\ pc = "update"
    /\ calls' = Started(calls, "update")
    /\ issued' = Issue("update", <<>>)
    /\ steps' = steps \cup {"upgrade"}
    /\ pc' = "update_wait"
    /\ UNCHANGED << world, first_run, cfg, tool, brew, formulae, casks, result, outdated,
                    to_install, futures, max_workers, caveats, warned, exc,
                    report, exitcode >>

\* run_live without check: the exit status is not looked at
UpdateReturn ==
    /\ pc = "update_wait"
    /\ calls' = Returned(calls, "update")
    /\ \E a \in LiveAnswers(tool) :
          IF a = "raise"
          THEN Raise("OSError") /\ issued' = Settle("raised")
          ELSE pc' = "outdated" /\ issued' = Settle("ignored") /\ UNCHANGED exc
    /\ UNCHANGED << world, first_run, cfg, tool, brew, formulae, casks, result, outdated,
                    to_install, futures, max_workers, caveats, warned, steps,
                    report, exitcode >>

OutdatedIssue ==
    /\ pc = "outdated"
    /\ calls' = Started(calls, "outdated")
    /\ issued' = Issue("outdated", <<>>)
    /\ pc' = "outdated_wait"
    /\ UNCHANGED << world, first_run, cfg, tool, brew, formulae, casks, result, outdated,
                    to_install, futures, max_workers, caveats, warned, steps,
                    exc, report, exitcode >>

OutdatedReturn ==
    /\ pc = "outdated_wait"
    /\ calls' = Returned(calls, "outdated")
    /\ \E a \in OutdatedAnswers(tool) :
          IF a.raise
          THEN /\ Raise("CaptureError")
               /\ issued' = Settle("raised")
               /\ UNCHANGED outdated
          ELSE /\ outdated' = a.lines
               /\ issued' = Settle("ignored")
               /\ pc' = IF a.lines # <<>> THEN "upgrade" ELSE "list_formula"
               /\ UNCHANGED exc
    /\ UNCHANGED << world, first_run, cfg, tool, brew, formulae, casks, result, to_install,
                    futures, max_workers, caveats, warned, steps, report,
                    exitcode >>

UpgradeIssue ==
    /\ pc = "upgrade"
    /\ calls' = Started(calls, "upgrade")
    /\ issued' = Issue("upgrade", outdated)
    /\ pc' = "upgrade_wait"
    /\ UNCHANGED << world, first_run, cfg, tool, brew, formulae, casks, result, outdated,
                    to_install, futures, max_workers, caveats, warned, steps,
                    exc, report, exitcode >>

\* a handler with its two branches exchanged
RecordStepSwapped(r, ok, op, kind, items) ==
    IF ok
    THEN [r EXCEPT !.error[op][kind] = @ \o items]
    ELSE [r EXCEPT !.success[op][kind] = @ \o items]

\* a handler that files a failed call under both lists
RecordStepBoth(r, ok, op, kind, items) ==
    IF ok
    THEN [r EXCEPT !.success[op][kind] = @ \o items]
    ELSE [r EXCEPT !.success[op][kind] = @ \o items,
                   !.error[op][kind] = @ \o items]

\* try: run_live(..., check=True); extend success / except Exception: extend error
RecordStep(r, ok, op, kind, items) ==
    IF ok
    THEN [r EXCEPT !.success[op][kind] = @ \o items]
    ELSE [r EXCEPT !.error[op][kind] = @ \o items]

UpgradeReturn ==
    /\ pc = "upgrade_wait"
    /\ calls' = Returned(calls, "upgrade")
    /\ \E a \in LiveAnswers(tool) :
          /\ result' = RecordStep(result, a = "ok", "upgrade", "formula", outdated)
          /\ issued' = Settle(IF a = "ok" THEN "ok" ELSE "fail")
    /\ pc' = "list_formula"
    /\ UNCHANGED << world, first_run, cfg, tool, brew, formulae, casks, outdated, to_install,
                    futures, max_workers, caveats, warned, steps, exc, report,
                    exitcode >>

----------------------------------------------------------------------------
(* install_formulae *)

\* [name for name in xs if name not in installed]
NotIn(xs, installed) == SelectSeq(xs, LAMBDA n : n \notin installed)

ListFormulaIssue ==
    /\ pc = "list_formula"
    /\ calls' = Started(calls, "list_formula")
    /\ issued' = Issue("list_formula", <<>>)
    /\ steps' = steps \cup {"install_formula"}
    /\ pc' = "list_formula_wait"
    /\ UNCHANGED << world, first_run, cfg, tool, brew, formulae, casks, result, outdated,
                    to_install, futures, max_workers, caveats, warned, exc,
                    report, exitcode >>

ListFormulaReturn ==
    /\ pc = "list_formula_wait"
    /\ calls' = Returned(calls, "list_formula")
    /\ \E a \in ListFormulaAnswers(tool) :
          IF a.raise
          THEN /\ Raise("CaptureError")
               /\ issued' = Settle("raised")
               /\ UNCHANGED to_install
          ELSE /\ to_install' = NotIn(formulae, a.installed)
               /\ issued' = Settle("ignored")
               /\ pc' = IF to_install' # <<>> THEN "install_formula" ELSE "filter"
               /\ UNCHANGED exc
    /\ UNCHANGED << world, first_run, cfg, tool, brew, formulae, casks, result, outdated,
                    futures, max_workers, caveats, warned, steps, report,
                    exitcode >>

InstallFormulaIssue ==
    /\ pc = "install_formula"
    /\ calls' = Started(calls, "install")
    /\ issued' = Issue("install", to_install)
    /\ pc' = "install_formula_wait"
    /\ UNCHANGED << world, first_run, cfg, tool, brew, formulae, casks, result, outdated,
                    to_install, futures, max_workers, caveats, warned, steps,
                    exc, report, exitcode >>

InstallFormulaReturn ==
    /\ pc = "install_formula_wait"
    /\ calls' = Returned(calls, "install")
    /\ \E a \in LiveAnswers(tool) :
          /\ result' = RecordStep(result, a = "ok", "install", "formula", to_install)
          /\ issued' = Settle(IF a = "ok" THEN "ok" ELSE "fail")
    /\ pc' = "filter"
    /\ UNCHANGED << world, first_run, cfg, tool, brew, formulae, casks, outdated, to_install,
                    futures, max_workers, caveats, warned, steps, exc, report,
                    exitcode >>

----------------------------------------------------------------------------
(* The probes *)

\* what one adapter query of is_cask_installed can answer: query 1 is
\* "brew list --cask", query 2 "brew info --cask <name>", query 3 the two
\* Path(...).exists() calls.  "error" is a non-zero exit status with nothing
\* on stdout; "raise" is run_capture raising.
CaskAnswers(t, k) ==
    CASE k = 1 -> IF t = "steady" THEN {"listed"}
                  ELSE {"listed", "unlisted", "error", "raise"}
      [] k = 2 -> IF t = "steady" THEN {"info_installed"}
                  ELSE {"info_installed", "info_not_installed", "error", "raise"}
      [] OTHER -> IF t = "steady" THEN {"exists"} ELSE {"exists", "absent"}

\* what "brew info --caveats <name>" can answer: stdout with text after
\* strip(), stdout empty after strip() (whatever the exit status), or
\* run_capture raising
CaveatAnswers(t) ==
    IF t = "steady" THEN {"empty"} ELSE {"text", "empty", "raise"}

\* the three lambdas of is_cask_installed, applied to the query's answer
Signal(k, a) ==
    CASE k = 1 -> a = "listed"                \* name in stdout.splitlines()
      [] k = 2 -> a # "info_not_installed"    \* "Not installed" not in stdout
      [] OTHER -> a = "exists"                \* any(Path(p).exists() ...)

\* all(...) in place of any(...)
AllVerdict(sigs, n) ==
    IF ~ sigs[Len(sigs)] THEN "false"
    ELSE IF Len(sigs) = n THEN "true" ELSE "more"

\* any(m() for m in methods) after the methods evaluated so far gave sigs:
\* the first true value ends it, false when all n are spent
AnyVerdict(sigs, n) ==
    IF sigs[Len(sigs)] THEN "true"
    ELSE IF Len(sigs) = n THEN "false" ELSE "more"

NewFuture(fn, name, is_cask) ==
    [fn |-> fn, name |-> name, is_cask |-> is_cask, st |-> "queued", q |-> 0,
     sigs |-> <<>>, failed |-> FALSE, res |-> "none"]

\* is_cask_installed: the query in flight answers a
IsCaskInstalledStep(f, a) ==
    IF a = "raise"
    THEN [f EXCEPT !.st = "finished", !.q = 0, !.res = "raised"]
    ELSE LET sigs == Append(f.sigs, Signal(f.q, a))
             failed == f.failed \/ a = "error"
             v == AnyVerdict(sigs, 3)
         IN  IF v = "more"
             THEN [f EXCEPT !.q = @ + 1, !.sigs = sigs, !.failed = failed]
             ELSE [f EXCEPT !.st = "finished", !.q = 0, !.sigs = sigs,
                            !.failed = failed, !.res = v]

\* get_caveat: the query answers a; None when stdout.strip() is empty
GetCaveatStep(f, a) ==
    [f EXCEPT !.st = "finished", !.q = 0,
              !.res = IF a = "raise" THEN "raised" ELSE a]

\* the answers the query in flight can get; when the tool's state is fixed,
\* the same query for the same cask always gets the same answer
ProbeAnswers(t, f) ==
    IF f.fn = "get_caveat" THEN CaveatAnswers(t)
    ELSE IF t = "fixed" THEN {world[f.name][f.q]}
    ELSE CaskAnswers(t, f.q)

ProbeStep(f, a) ==
    IF f.fn = "get_caveat" THEN GetCaveatStep(f, a) ELSE IsCaskInstalledStep(f, a)

----------------------------------------------------------------------------
(* ThreadPoolExecutor *)

Min(a, b) == IF a <= b THEN a ELSE b

\* max_workers=len(items): the cap forgotten
MaxWorkersUncapped(n) == n

\* max_workers=min(8, len(items))
MaxWorkers(n) == Min(MAX_WORKERS, n)

Running(fs) == {i \in DOMAIN fs : fs[i].st = "running"}
Queued(fs) == {i \in DOMAIN fs : fs[i].st = "queued"}

\* shutdown(wait=False): the with block left with workers still busy
PoolIdleNoWait(fs) == TRUE

\* ThreadPoolExecutor.__exit__: shutdown(wait=True) returns when no work
\* item is queued or running
PoolIdle(fs) == Running(fs) = {} /\ Queued(fs) = {}

\* a merge in which the first outcome to arrive wins
MergeKeepFirst(acc, x) == IF acc = <<>> THEN <<x>> ELSE acc

\* to_install.append(name), caveats.append(result): outcomes are merged in
\* the order as_completed yields them
Merge(acc, x) == Append(acc, x)

\* a loop that stops at the first outcome
LoopDoneFirst(fs) == \E i \in DOMAIN fs : fs[i].st = "collected"

\* as_completed(futures) is exhausted
LoopDone(fs) == \A i \in DOMAIN fs : fs[i].st = "collected"

\* a worker takes the oldest queued work item; there are at most max_workers
\* workers, each running one item at a time
WorkerStart(i) ==
    /\ i \in Queued(futures)
    /\ \A j \in Queued(futures) : i <= j
    /\ Cardinality(Running(futures)) < max_workers
    /\ futures' = [futures EXCEPT ![i].st = "running", ![i].q = 1]
    /\ UNCHANGED << world, first_run, issued, cfg, tool, pc, brew, formulae, casks, result, outdated,
                    to_install, max_workers, caveats, calls, warned, steps,
                    exc, report, exitcode >>

\* the adapter call a worker is blocked in comes back
WorkerAnswer(i) ==
    /\ i \in Running(futures)
    /\ \E a \in ProbeAnswers(tool, futures[i]) :
          futures' = [futures EXCEPT ![i] = ProbeStep(@, a)]
    /\ UNCHANGED << world, first_run, issued, cfg, tool, pc, brew, formulae, casks, result, outdated,
                    to_install, max_workers, caveats, calls, warned, steps,
                    exc, report, exitcode >>

----------------------------------------------------------------------------
(* install_casks and filter_missing_casks_parallel *)

\* to_install = []; the executor is made and every cask submitted.  The
\* submit loop only enqueues, so it is taken as one step.
FilterStart ==
    /\ pc = "filter"
    /\ steps' = steps \cup {"install_cask"}
    /\ to_install' = <<>>
    /\ max_workers' = MaxWorkers(Len(casks))
    /\ IF max_workers' <= 0
       THEN /\ exc' = "ValueError"
            /\ pc' = "filter_raised"
            /\ UNCHANGED futures
       ELSE /\ futures' = [i \in 1..Len(casks) |->
                              NewFuture("is_cask_installed", casks[i], TRUE)]
            /\ pc' = "filter_collect"
            /\ UNCHANGED exc
    /\ UNCHANGED << world, first_run, issued, cfg, tool, brew, formulae, casks, result, outdated,
                    caveats, calls, warned, report, exitcode >>

\* one turn of "for future in as_completed(futures)"
FilterCollect(i) ==
    /\ pc = "filter_collect"
    /\ i \in DOMAIN futures
    /\ futures[i].st = "finished"
    /\ futures' = [futures EXCEPT ![i].st = "collected"]
    /\ to_install' = IF futures[i].res = "true" THEN to_install
                     ELSE Merge(to_install, futures[i].name)
    /\ warned' = IF futures[i].res = "raised"
                 THEN warned \cup {futures[i].name} ELSE warned
    /\ UNCHANGED << world, first_run, issued, cfg, tool, pc, brew, formulae, casks, result, outdated,
                    max_workers, caveats, calls, steps, exc, report,
                    exitcode >>

\* the loop ends, the with block is left, to_install is returned, and
\* install_casks issues the batched install if there is anything to install
FilterReturn ==
    /\ pc = "filter_collect"
    /\ LoopDone(futures)
    /\ PoolIdle(futures)
    /\ pc' = IF to_install # <<>> THEN "install_cask" ELSE "caveats"
    /\ UNCHANGED << world, first_run, issued, cfg, tool, brew, formulae, casks, result, outdated,
                    to_install, futures, max_workers, caveats, calls, warned,
                    steps, exc, report, exitcode >>

InstallCaskIssue ==
    /\ pc = "install_cask"
    /\ calls' = Started(calls, "install_cask")
    /\ issued' = Issue("install_cask", to_install)
    /\ pc' = "install_cask_wait"
    /\ UNCHANGED << world, first_run, cfg, tool, brew, formulae, casks, result, outdated,
                    to_install, futures, max_workers, caveats, warned, steps,
                    exc, report, exitcode >>

InstallCaskReturn ==
    /\ pc = "install_cask_wait"
    /\ calls' = Returned(calls, "install_cask")
    /\ \E a \in LiveAnswers(tool) :
          /\ result' = RecordStep(result, a = "ok", "install", "cask", to_install)
          /\ issued' = Settle(IF a = "ok" THEN "ok" ELSE "fail")
    /\ pc' = "caveats"
    /\ UNCHANGED << world, first_run, cfg, tool, brew, formulae, casks, outdated, to_install,
                    futures, max_workers, caveats, warned, steps, exc, report,
                    exitcode >>

----------------------------------------------------------------------------
(* collect_caveats_parallel *)

\* items = [(name, False) for name in formulae]: the casks left out
CaveatItemsFormulaeOnly(fs, cs) ==
    [i \in 1..Len(fs) |-> NewFuture("get_caveat", fs[i], FALSE)]

\* items = [(name, False) for name in formulae] + [(name, True) for name in casks]
CaveatItems(fs, cs) ==
    [i \in 1..(Len(fs) + Len(cs)) |->
        IF i <= Len(fs)
        THEN NewFuture("get_caveat", fs[i], FALSE)
        ELSE NewFuture("get_caveat", cs[i - Len(fs)], TRUE)]

CaveatsStart ==
    /\ pc = "caveats"
    /\ steps' = steps \cup {"caveats"}
    /\ caveats' = <<>>
    /\ max_workers' = MaxWorkers(Len(formulae) + Len(casks))
    /\ IF max_workers' <= 0
       THEN /\ exc' = "ValueError"
            /\ pc' = "caveats_raised"
            /\ UNCHANGED futures
       ELSE /\ futures' = CaveatItems(formulae, casks)
            /\ pc' = "caveats_collect"
            /\ UNCHANGED exc
    /\ UNCHANGED << world, first_run, issued, cfg, tool, brew, formulae, casks, result, outdated,
                    to_install, calls, warned, report, exitcode >>

\* {"cask" if is_cask else "formula": name, "caveat": caveat}
CaveatEntry(f) ==
    [kind |-> IF f.is_cask THEN "cask" ELSE "formula", name |-> f.name,
     caveat |-> "Caveat"]

\* one turn of "for future in as_completed(futures)": future.result() is
\* not guarded, so a probe's exception leaves the loop
CaveatsCollect(i) ==
    /\ pc = "caveats_collect"
    /\ i \in DOMAIN futures
    /\ futures[i].st = "finished"
    /\ futures' = [futures EXCEPT ![i].st = "collected"]
    /\ caveats' = IF futures[i].res = "text"
                  THEN Merge(caveats, CaveatEntry(futures[i])) ELSE caveats
    /\ IF futures[i].res = "raised"
       THEN exc' = "ProbeError" /\ pc' = "caveats_unwind"
       ELSE UNCHANGED << exc, pc >>
    /\ UNCHANGED << world, first_run, issued, cfg, tool, brew, formulae, casks, result, outdated,
                    to_install, max_workers, calls, warned, steps, report,
                    exitcode >>

\* the exception leaves the with block: __exit__ waits for the workers
CaveatsUnwind ==
    /\ pc = "caveats_unwind"
    /\ PoolIdle(futures)
    /\ pc' = "caveats_raised"
    /\ UNCHANGED << world, first_run, issued, cfg, tool, brew, formulae, casks, result, outdated,
                    to_install, futures, max_workers, caveats, calls, warned,
                    steps, exc, report, exitcode >>

\* the loop ends, the with block is left, and main() stores the list
CaveatsReturn ==
    /\ pc = "caveats_collect"
    /\ LoopDone(futures)
    /\ PoolIdle(futures)
    /\ result' = [result EXCEPT !.info = caveats]
    /\ pc' = "print"
    /\ UNCHANGED << world, first_run, issued, cfg, tool, brew, formulae, casks, outdated, to_install,
                    futures, max_workers, caveats, calls, warned, steps, exc,
                    report, exitcode >>

----------------------------------------------------------------------------
(* print_result and the end of the process *)

\* a print_result that leaves the top-level cask lists as main() made them
NotAliased(r) == r

\* result["success"]["cask"] = result["success"]["install"]["cask"], and the
\* same under "error"
Aliased(r) == [r EXCEPT !.success.cask = r.success.install.cask,
                        !.error.cask = r.error.install.cask]

\* the two aliases are set, the Report is printed, main() returns
PrintResult ==
    /\ pc = "print"
    /\ result' = Aliased(result)
    /\ report' = [printed |-> TRUE, body |-> result']
    /\ pc' = "exited"
    /\ exitcode' = 0
    /\ UNCHANGED << world, first_run, issued, cfg, tool, brew, formulae, casks, outdated, to_install,
                    futures, max_workers, caveats, calls, warned, steps, exc >>

\* an uncaught exception ends the process with a traceback
Traceback ==
    /\ pc \in {"main_raised", "filter_raised", "caveats_raised"}
    /\ pc' = "exited"
    /\ exitcode' = 1
    /\ UNCHANGED << world, first_run, issued, cfg, tool, brew, formulae, casks, result, outdated,
                    to_install, futures, max_workers, caveats, calls, warned,
                    steps, exc, report >>

----------------------------------------------------------------------------

Next ==
    \/ RequireMacos
    \/ ParseConfig
    \/ AssertLists
    \/ BrewPath
    \/ UpdateIssue
    \/ UpdateReturn
    \/ OutdatedIssue
    \/ OutdatedReturn
    \/ UpgradeIssue
    \/ UpgradeReturn
    \/ ListFormulaIssue
    \/ ListFormulaReturn
    \/ InstallFormulaIssue
    \/ InstallFormulaReturn
    \/ FilterStart
    \/ \E i \in DOMAIN futures : WorkerStart(i)
    \/ \E i \in DOMAIN futures : WorkerAnswer(i)
    \/ \E i \in DOMAIN futures : FilterCollect(i)
    \/ FilterReturn
    \/ InstallCaskIssue
    \/ InstallCaskReturn
    \/ CaveatsStart
    \/ \E i \in DOMAIN futures : CaveatsCollect(i)
    \/ CaveatsUnwind
    \/ CaveatsReturn
    \/ PrintResult
    \/ Traceback

Spec == Init /\ [][Next]_vars

----------------------------------------------------------------------------
(* filter_missing_casks_parallel called twice on an unchanging tool *)

\* what the three queries of is_cask_installed answer for one cask, as long
\* as nothing is installed or removed: one profile for each way through
\* the three methods
Profiles ==
    { << "listed", "info_installed", "exists" >>,
      << "raise", "info_installed", "exists" >>,
      << "unlisted", "info_installed", "absent" >>,
      << "error", "raise", "absent" >>,
      << "unlisted", "info_not_installed", "exists" >>,
      << "error", "error", "absent" >>,
      << "unlisted", "info_not_installed", "absent" >> }

Worlds == [CaskNames -> Profiles]

\* a caller holding brew and a cask list, about to call the filter
TwiceInit ==
    /\ cfg \in {c \in OkConfigs : c.formula = <<>>}
    /\ tool = "fixed"
    /\ world \in Worlds
    /\ first_run = NoRun
    /\ pc = "filter"
    /\ brew = "brew"
    /\ formulae = <<>>
    /\ casks = cfg.cask
    /\ result = EmptyResult
    /\ outdated = <<>>
    /\ to_install = <<>>
    /\ futures = <<>>
    /\ max_workers = 0
    /\ caveats = <<>>
    /\ calls = {}
    /\ warned = {}
    /\ steps = {}
    /\ exc = ""
    /\ report = NoReport
    /\ exitcode = -1
    /\ issued = <<>>

\* the first call returns its list and the caller calls the filter again
FilterRerun ==
    /\ pc = "filter_collect"
    /\ ~ first_run.returned
    /\ LoopDone(futures)
    /\ PoolIdle(futures)
    /\ first_run' = [returned |-> TRUE, names |-> {to_install[k] : k \in DOMAIN to_install}]
    /\ pc' = "filter"
    /\ UNCHANGED << world, issued, cfg, tool, brew, formulae, casks, result,
                    outdated, to_install, futures, max_workers, caveats,
                    calls, warned, steps, exc, report, exitcode >>

\* the second call returns its list
FilterReturnAgain ==
    /\ first_run.returned
    /\ FilterReturn

NextTwice ==
    \/ FilterStart
    \/ \E i \in DOMAIN futures : WorkerStart(i)
    \/ \E i \in DOMAIN futures : WorkerAnswer(i)
    \/ \E i \in DOMAIN futures : FilterCollect(i)
    \/ FilterRerun
    \/ FilterReturnAgain

SpecTwice == TwiceInit /\ [][NextTwice]_vars

----------------------------------------------------------------------------
(* Vocabulary of the properties *)

\* the main thread is inside a runner's with block
InRunner == pc \in {"filter_collect", "caveats_collect", "caveats_unwind"}

\* filter_missing_casks_parallel is over (returned, or raised) and futures
\* still holds its batch
FilterReturned == pc \in {"install_cask", "install_cask_wait", "caveats"}
FilterOver == FilterReturned \/ pc = "filter_raised"

\* collect_caveats_parallel is over (returned, or raised)
CaveatsReturned == pc = "print" \/ (pc = "exited" /\ report.printed)
CaveatsOver == CaveatsReturned \/ pc = "caveats_raised"

Collected(fn) ==
    {i \in DOMAIN futures : futures[i].fn = fn /\ futures[i].st = "collected"}

CountIn(seq, x) == Cardinality({k \in DOMAIN seq : seq[k] = x})

Range(seq) == {seq[k] : k \in DOMAIN seq}

\* the three signals of a probe were all evaluated and all negative
AllNegative(sigs) == Len(sigs) = 3 /\ \A k \in 1..3 : ~ sigs[k]

\* subprocess.run itself raised in the main flow (not in a probe)
MainCallRaised == exc \in {"OSError", "CaptureError"}

\* the run got past configuration loading and tool discovery
PastDiscovery == brew # ""

\* the three steps that record an outcome: the command of the batched call
\* and the place of its lists in the result
RecordingSteps ==
    {[cmd |-> "upgrade", op |-> "upgrade", kind |-> "formula"],
     [cmd |-> "install", op |-> "install", kind |-> "formula"],
     [cmd |-> "install_cask", op |-> "install", kind |-> "cask"]}

\* the positions in the command history at which cmd was issued
IssuedAt(cmd) == {k \in DOMAIN issued : issued[k].cmd = cmd}

\* one list holds the same elements as the other, each as many times
SameUpToOrder(s, t) ==
    /\ Len(s) = Len(t)
    /\ \A x \in Range(s) \cup Range(t) : CountIn(s, x) = CountIn(t, x)

\* the casks the batch's probes found missing (or failed on), in the order
\* the casks were submitted
MissingInOrder(fs) ==
    LET miss == SelectSeq(fs, LAMBDA f : f.res # "true")
    IN  [k \in 1..Len(miss) |-> miss[k].name]

\* the entries of the probes that returned caveat text, in the order the
\* items were submitted
CaveatsInOrder(fs) ==
    LET hit == SelectSeq(fs, LAMBDA f : f.res = "text")
    IN  [k \in 1..Len(hit) |-> CaveatEntry(hit[k])]

\* install_casks has returned
InstallCasksOver == pc = "caveats" \/ "caveats" \in steps

\* collect_caveats_parallel has submitted its probes
CaveatsSubmitted == "caveats" \in steps /\ exc # "ValueError"

\* the probes of the batch whose answer is the entry e
ProbesWith(e) ==
    {i \in DOMAIN futures :
        /\ futures[i].res = "text"
        /\ futures[i].name = e.name
        /\ e.kind = (IF futures[i].is_cask THEN "cask" ELSE "formula")}

----------------------------------------------------------------------------
(* C1: in both runners a probe that raises never aborts the batch: the      *)
(* runner does not raise, and when it is over every probe of the batch has  *)
(* been collected.  The code: collect_caveats_parallel calls                *)
(* future.result() unguarded, so the probe's exception leaves the loop and  *)
(* the runner.                                                              *)
C1_ProbeRaiseNeverAbortsBatch ==
    (\E i \in DOMAIN futures : futures[i].res = "raised") =>
        /\ pc \notin {"caveats_unwind", "caveats_raised", "filter_raised"}
        /\ (FilterReturned \/ CaveatsReturned => LoopDone(futures))

(* C2: a runner given an empty item list starts no pool and returns an      *)
(* empty result without raising.  The code: ThreadPoolExecutor(max_workers= *)
(* min(8, 0)) raises ValueError.                                            *)
C2_EmptyBatchReturnsEmpty ==
    /\ (Len(casks) = 0 => pc # "filter_raised")
    /\ (Len(formulae) + Len(casks) = 0 => pc # "caveats_raised")
    /\ (FilterReturned /\ Len(casks) = 0 => to_install = <<>>)

(* C3: when a runner is over, it has produced exactly one outcome for each  *)
(* of the N submitted items: N futures collected, each in exactly one       *)
(* class.                                                                   *)
C3_ExactlyNOutcomes ==
    /\ FilterOver =>
          /\ Cardinality(Collected("is_cask_installed")) = Len(casks)
          /\ Len(to_install)
               + Cardinality({i \in Collected("is_cask_installed") :
                                 futures[i].res = "true"}) = Len(casks)
    /\ CaveatsOver =>
          /\ Cardinality(Collected("get_caveat")) = Len(formulae) + Len(casks)
          /\ Len(caveats)
               + Cardinality({i \in Collected("get_caveat") :
                                 futures[i].res = "empty"})
               = Len(formulae) + Len(casks)

(* C4: every run that got past configuration loading and tool discovery     *)
(* has printed the Report when it ends.  Runs in which subprocess.run       *)
(* itself raised in the main flow are left aside; the remaining ones        *)
(* already refute the claim.                                                *)
C4_ReportAlwaysPrinted ==
    (pc = "exited" /\ PastDiscovery /\ ~ MainCallRaised) => report.printed

(* C5: in the Missing-Cask Filter a cask whose probe failed (a query of it  *)
(* exited non-zero, or raised) is not installed for the filter: it is in    *)
(* the returned to_install, and a warning was logged for it.                *)
C5_FailedProbeMeansMissing ==
    FilterReturned =>
        \A i \in DOMAIN futures :
            (futures[i].failed \/ futures[i].res = "raised") =>
                /\ futures[i].res # "true"
                /\ futures[i].name \in Range(to_install)
                /\ futures[i].name \in warned

(* C6: OR semantics of the installed-check: when the filter has returned,   *)
(* to_install holds a cask name once for each probe of that name that       *)
(* raised or whose three signals were all evaluated and all negative, and   *)
(* not for any probe one of whose signals was positive.                     *)
C6_OrOfSignals ==
    FilterReturned =>
        /\ \A n \in CaskNames :
              CountIn(to_install, n) =
                  Cardinality({i \in DOMAIN futures :
                      /\ futures[i].name = n
                      /\ (futures[i].res = "raised" \/ AllNegative(futures[i].sigs))})
        /\ \A i \in DOMAIN futures :
              futures[i].res # "raised" =>
                  (futures[i].res = "true" <=>
                      \E k \in DOMAIN futures[i].sigs : futures[i].sigs[k])

\* the filter has returned for two casks: one whose only positive signal is
\* the application path, kept out; one with three negative signals, kept in
C6_Witness ==
    /\ FilterReturned
    /\ Len(futures) = 2
    /\ futures[1].sigs = << FALSE, FALSE, TRUE >>
    /\ futures[2].sigs = << FALSE, FALSE, FALSE >>
    /\ to_install = << futures[2].name >>

(* C7: during a batch of N items at most min(8, N) adapter calls are in     *)
(* flight: each running probe has one query in flight, and the main thread  *)
(* none.                                                                    *)
C7_AtMostMinEightN ==
    /\ Cardinality(Running(futures)) <= Min(8, Len(futures))
    /\ InRunner => calls = {}

\* more items than workers: eight probes in flight, the ninth waiting
C7_Witness ==
    /\ Len(futures) > 8
    /\ Cardinality(Running(futures)) = 8
    /\ Queued(futures) # {}

(* C8: at most one mutating call (update, upgrade, install, install --cask) *)
(* is in flight, it is the main thread's, and no probe is running beside    *)
(* it: the workers only issue list and info queries.                        *)
C8_MutationsSequential ==
    /\ Cardinality(calls \cap MutatingCmds) <= 1
    /\ \A i \in Running(futures) :
          futures[i].fn \in {"is_cask_installed", "get_caveat"}
    /\ (calls \cap MutatingCmds # {} => Running(futures) = {})

\* the batched upgrade is in flight after update has come back
C8_Witness ==
    /\ calls = {"upgrade"}
    /\ pc = "upgrade_wait"

(* C9: when a runner has handed control back (returned or raised), no probe *)
(* of its batch is queued or running; in particular none is while the cask  *)
(* install call is in flight.                                               *)
C9_RunnerBlocksUntilDone ==
    /\ ~ InRunner => (Running(futures) = {} /\ Queued(futures) = {})
    /\ "install_cask" \in calls => \A i \in DOMAIN futures :
                                      futures[i].st = "collected"

\* the cask install call is in flight after a batch of two probes
C9_Witness ==
    /\ "install_cask" \in calls
    /\ Len(futures) = 2
    /\ Len(to_install) = 2

(* C10: a failed batched upgrade or install call is recorded in the error   *)
(* section of its step, and every later step of upgrade -> formula install  *)
(* -> cask install -> caveat collection is still started.  Runs in which    *)
(* subprocess.run itself raised in a query of the main flow are left aside. *)
C10_FailedStepDoesNotStopLaterSteps ==
    /\ (pc = "list_formula" /\ outdated # <<>>) =>
          (result.success.upgrade.formula = outdated)
              # (result.error.upgrade.formula = outdated)
    /\ (pc = "exited" /\ PastDiscovery /\ ~ MainCallRaised) =>
          /\ result.error.upgrade.formula # <<>> =>
                {"install_formula", "install_cask", "caveats"} \subseteq steps
          /\ result.error.install.formula # <<>> =>
                {"install_cask", "caveats"} \subseteq steps
          /\ result.error.install.cask # <<>> => "caveats" \in steps

(* C11: each step (upgrade, formula install, cask install) records its      *)
(* outcome as one entry over all items of its single batched call: in every *)
(* state the step's success list is the attempted items and its error list  *)
(* is empty, or the reverse, or both are empty; no item is in both lists    *)
(* and no item outside the call is in either.                               *)
C11_AtomicStepEntry ==
    \A s \in RecordingSteps :
       LET ok  == result.success[s.op][s.kind]
           err == result.error[s.op][s.kind]
       IN  /\ Cardinality(IssuedAt(s.cmd)) <= 1
           /\ IssuedAt(s.cmd) = {} => (ok = <<>> /\ err = <<>>)
           /\ \A k \in IssuedAt(s.cmd) :
                 /\ \/ ok = issued[k].args /\ err = <<>>
                    \/ ok = <<>> /\ err = issued[k].args
                    \/ ok = <<>> /\ err = <<>>
                 /\ issued[k].args # <<>>
                 /\ issued[k].rc = "ok" => ok = issued[k].args
                 /\ issued[k].rc = "fail" => err = issued[k].args
                 /\ issued[k].rc = "running" => (ok = <<>> /\ err = <<>>)
           /\ Range(ok) \cap Range(err) = {}

\* the upgrade of two formulae succeeded and the cask install of two casks
\* failed
C11_Witness ==
    /\ result.success.upgrade.formula = <<"git", "wget">>
    /\ result.error.upgrade.formula = <<>>
    /\ Len(result.error.install.cask) = 2
    /\ result.success.install.cask = <<>>
    /\ \E k \in IssuedAt("install_cask") :
          issued[k].rc = "fail" /\ issued[k].args = result.error.install.cask

(* C12, as stated: in every state of the run after the Report is created,   *)
(* success.cask equals success.install.cask and error.cask equals           *)
(* error.install.cask.  The code sets the two top-level lists only in       *)
(* print_result, so they are stale from the cask install until then.        *)
C12_ViewsEqualSourcesInEveryState ==
    /\ result.success.cask = result.success.install.cask
    /\ result.error.cask = result.error.install.cask

(* C12, amended: from print_result on, and so in the printed Report, the    *)
(* derived views equal their sources: success.cask equals                   *)
(* success.install.cask and error.cask equals error.install.cask; before    *)
(* print_result the two top-level lists are empty.                          *)
C12_PrintedViewsEqualSources ==
    /\ report.printed =>
          /\ report.body.success.cask = report.body.success.install.cask
          /\ report.body.error.cask = report.body.error.install.cask
          /\ report.body = result
          /\ \A k \in IssuedAt("install_cask") :
                issued[k].args \in {report.body.success.cask,
                                    report.body.error.cask}
    /\ ~ report.printed =>
          (result.success.cask = <<>> /\ result.error.cask = <<>>)

\* a Report is printed whose success.cask names two installed casks
C12_Witness ==
    /\ report.printed
    /\ Len(report.body.success.cask) = 2
    /\ report.body.success.install.cask = report.body.success.cask

(* C13, as stated: runs that differ only in the order in which the workers  *)
(* finish print the same Report, including the order of the names in the    *)
(* cask install lists and of the entries in info: the lists are those of    *)
(* the run in which the probes finish in submission order.  The code        *)
(* appends in completion order.                                             *)
C13_SameListsInSameOrder ==
    /\ FilterReturned => to_install = MissingInOrder(futures)
    /\ CaveatsReturned => result.info = CaveatsInOrder(futures)

(* C13, amended: runs that differ only in the order in which the workers    *)
(* finish print the same Report up to the order of the names in the cask    *)
(* install lists and of the entries in info: the filter's result holds      *)
(* exactly the casks whose probe did not answer "installed", info exactly   *)
(* the entries of the probes that returned text, whatever the order of      *)
(* completion, and the printed lists are these.                             *)
C13_SameListsUpToOrder ==
    /\ FilterReturned => SameUpToOrder(to_install, MissingInOrder(futures))
    /\ CaveatsReturned =>
          /\ SameUpToOrder(result.info, CaveatsInOrder(futures))
          /\ result.success.install.cask \in {<<>>, to_install}
          /\ result.error.install.cask \in {<<>>, to_install}
    /\ report.printed => report.body.info = result.info

\* two casks were found missing and the second submitted finished first
C13_Witness ==
    /\ FilterReturned
    /\ Len(casks) = 2
    /\ casks[1] # casks[2]
    /\ to_install = << casks[2], casks[1] >>

(* C14: scenario A, generalized: when the cask list is empty, every         *)
(* configured formula is already listed as installed, nothing is outdated   *)
(* and no caveat text exists, the run completes and prints a Report whose   *)
(* install.formula success and error lists are empty, with no upgrade       *)
(* entries and no info entries, and no upgrade or install call is issued.   *)
(* The code: install_casks runs the filter on the empty cask list, whose    *)
(* ThreadPoolExecutor(max_workers=0) raises ValueError; no Report.          *)
C14_ScenarioA ==
    ( /\ pc = "exited"
      /\ cfg.kind = "ok"
      /\ cfg.cask = <<>>
      /\ \E k \in IssuedAt("outdated") : issued[k].rc = "ignored"
      /\ outdated = <<>>
      /\ \E k \in IssuedAt("list_formula") : issued[k].rc = "ignored"
      /\ IssuedAt("install") = {}
      /\ \A i \in DOMAIN futures : futures[i].res \notin {"text", "raised"} )
    => /\ report.printed
       /\ exitcode = 0
       /\ report.body.success.install.formula = <<>>
       /\ report.body.error.install.formula = <<>>
       /\ report.body.success.upgrade.formula = <<>>
       /\ report.body.error.upgrade.formula = <<>>
       /\ report.body.info = <<>>
       /\ IssuedAt("upgrade") = {}
       /\ IssuedAt("install_cask") = {}

(* C15: scenario B, generalized: the casks the filter returns feed exactly  *)
(* one batched cask install call per run, whose arguments are exactly that  *)
(* subset; there is no call when the subset is empty and never one call     *)
(* per item; when the call succeeds, the printed Report has                 *)
(* success.install.cask and success.cask both equal to that subset.         *)
C15_OneBatchedCaskInstall ==
    /\ Cardinality(IssuedAt("install_cask")) <= 1
    /\ \A k \in IssuedAt("install_cask") :
          /\ issued[k].args = to_install
          /\ issued[k].args # <<>>
    /\ InstallCasksOver => (IssuedAt("install_cask") = {} <=> to_install = <<>>)
    /\ report.printed =>
          \A k \in IssuedAt("install_cask") :
             issued[k].rc = "ok" =>
                /\ report.body.success.install.cask = issued[k].args
                /\ report.body.success.cask = issued[k].args
                /\ report.body.error.install.cask = <<>>
                /\ report.body.error.cask = <<>>

\* a Report is printed after one install call for two missing casks succeeded
C15_Witness ==
    /\ report.printed
    /\ \E k \in IssuedAt("install_cask") :
          /\ issued[k].rc = "ok"
          /\ Len(issued[k].args) = 2
          /\ report.body.success.cask = issued[k].args

(* C16: the caveat collector probes every configured formula and every      *)
(* configured cask, whether or not it was installed in this run, and the    *)
(* Report's info holds exactly one entry {kind: name, caveat: text} for     *)
(* each probed item whose caveat text is non-empty and no entry for an item *)
(* whose caveat text is empty.                                              *)
C16_InfoOneEntryPerCaveat ==
    /\ CaveatsSubmitted =>
          /\ Len(futures) = Len(formulae) + Len(casks)
          /\ \A i \in DOMAIN futures :
                /\ futures[i].fn = "get_caveat"
                /\ futures[i].name = (formulae \o casks)[i]
                /\ futures[i].is_cask = (i > Len(formulae))
    /\ CaveatsReturned =>
          /\ \A i \in DOMAIN futures : futures[i].res \in {"text", "empty"}
          /\ \A k \in DOMAIN result.info :
                /\ result.info[k].caveat # ""
                /\ ProbesWith(result.info[k]) # {}
                /\ CountIn(result.info, result.info[k])
                      = Cardinality(ProbesWith(result.info[k]))
          /\ Len(result.info)
                = Cardinality({i \in DOMAIN futures : futures[i].res = "text"})
    /\ report.printed => report.body.info = result.info

\* a Report is printed after a cask was installed in this run; the formula's
\* probe returned text, the cask's probe returned none
C16_Witness ==
    /\ report.printed
    /\ Len(formulae) = 1 /\ Len(casks) = 1
    /\ report.body.success.install.cask = casks
    /\ futures[1].res = "text" /\ futures[2].res = "empty"
    /\ Len(report.body.info) = 1
    /\ report.body.info[1].name = formulae[1]
    /\ report.body.info[1].kind = "formula"

(* C17: the filter is idempotent: called twice on the same cask list with   *)
(* no change of the tool's state or of the filesystem in between,           *)
(* filter_missing_casks_parallel returns the same set of casks both times,  *)
(* for every interleaving of the workers in either call.                    *)
C17_FilterIdempotent ==
    (first_run.returned /\ FilterReturned) =>
        /\ Range(to_install) = first_run.names
        /\ first_run.names =
              {c \in Range(casks) :
                  \/ world[c][1] = "raise"
                  \/ /\ world[c][1] # "listed"
                     /\ \/ world[c][2] = "raise"
                        \/ world[c][2] = "info_not_installed"
                           /\ world[c][3] = "absent"}

\* both calls returned two casks, in different orders
C17_Witness ==
    /\ first_run.returned
    /\ FilterReturned
    /\ Len(to_install) = 2
    /\ to_install[1] # to_install[2]
    /\ to_install[1] = casks[2]
    /\ first_run.names = {to_install[1], to_install[2]}

(* C18: item-level failures never reach the exit code: a run whose          *)
(* configuration is well-formed and whose tool is found exits zero, even    *)
(* when the batched upgrade, formula install or cask install call fails;    *)
(* the exit status is non-zero only when the configuration is malformed or  *)
(* the tool cannot be located.  The code: with every brew command           *)
(* answering, the filter on an empty cask list and a raising caveat probe   *)
(* end the run with a traceback and exit status 1.                          *)
C18_ExitZeroPastDiscovery ==
    (pc = "exited" /\ cfg.kind = "ok" /\ PastDiscovery /\ ~ MainCallRaised)
        => exitcode = 0

(* C19: a configuration error (missing file, malformed JSON, a formula or   *)
(* cask value that is not a list) is fatal and stops the run before any     *)
(* external call: in no run with such a configuration is a brew command     *)
(* issued or a worker pool started.                                         *)
C19_ConfigErrorBeforeAnyCall ==
    cfg.kind # "ok" =>
        /\ issued = <<>>
        /\ calls = {}
        /\ futures = <<>>
        /\ max_workers = 0
        /\ steps = {}
        /\ brew = ""
        /\ ~ report.printed
        /\ pc \in {"start", "parse_config", "assert_lists", "main_raised",
                    "exited"}
        /\ pc = "exited" => exitcode = 1

\* the run has ended on the AssertionError of assert_lists
C19_Witness ==
    /\ cfg.kind = "notlist"
    /\ exc = "AssertionError"
    /\ pc = "exited"
    /\ exitcode = 1

(* C20: tool discovery is fatal only after the bootstrap has been tried:    *)
(* when brew is not at its expected location or on PATH, the run attempts   *)
(* the bootstrap install (install_homebrew) and exits non-zero only if the  *)
(* tool is still not available after that attempt.  The code: brew_path()   *)
(* itself calls sys.exit(1) when brew is not found, so main() never gets a  *)
(* false value back and install_homebrew is never called.                   *)
C20_BootstrapTriedBeforeFatal ==
    (pc = "exited" /\ "brew_path" \in steps /\ brew = "") =>
        IssuedAt("bootstrap") # {}

====
